---- MODULE Spec2Model ----
(***************************************************************************)
(* Model of src/matching/entity_matcher.py (EntityMatcher.fuzzy_match, the *)
(* ThreadPoolExecutor jobs it submits, and the two tables it writes) and   *)
(* of src/matching/ai_validator.py (AIValidator.validate).                 *)
(*                                                                         *)
(* Units.  rapidfuzz scores are floats in [0,100]; a score is modelled in  *)
(* thousandths of a point (90.001 is 90001).  A verdict confidence is a    *)
(* float in [0,1] rounded to 4 places; it is modelled in ten-thousandths   *)
(* (0.9 is 9000).  match_confidence is rounded to 2 places; it is modelled *)
(* in hundredths (90.00 is 9000).                                          *)
(***************************************************************************)
EXTENDS Integers, Sequences, FiniteSets, Bags, TLC

\* ------------------------------------------------------------------------
\* Bounds of the model
\* ------------------------------------------------------------------------

\* size K of the worker pool (EntityMatcher(ai_workers=...))
ai_workers == 1

\* the largest number of rows of cc_df
MaxRecords == 3

\* database statements that may fail during one run
MaxDbFailures == 1

\* pieces a name given to strong_normalize on its own is made of
MaxChunks == 3

\* rows of the reference set given to build_indexes on its own
MaxRefs == 2

\* ------------------------------------------------------------------------
\* Program constants
\* ------------------------------------------------------------------------

SCORE_HIGH_CONF == 90
SCORE_MED_CONF == 82
SCORE_AI_MIN == 78

\* n points of score, in thousandths
Pts(n) == n * 1000

\* rapidfuzz ratios range over [0,100]
MaxScore == Pts(100)

\* len(pending_futures) >= self.ai_workers * 2
HighWater == ai_workers * 2

Urls == {"u1"}
Abns == {"a1", "a2"}

VARIABLES
    pc,               \* where the driver (fuzzy_match) is
    total_proc, total_written, total_ai,
    total_rejected, total_high, total_med,
    pending_futures,  \* dict future -> row, as the sequence of its keys
    yielded,          \* futures the as_completed loop has handed out
    jobs,             \* the futures submitted to the executor, in order
    company_master,   \* core.company_master, a bag of rows
    ai_match_log,     \* core.ai_match_log, a bag of rows
    db_failures,      \* database statements that have failed so far
    match_calls,      \* per future: _write_match calls that committed
    summary,          \* the totals printed by the final summary, if any
    d_score, d_decision,  \* a score and the branch the decision tree took
    nrm,              \* a name and what strong_normalize makes of it
    blk,              \* a reference set, its blocking index, one lookup
    val               \* one service reply on its way to a MatchRecord

vars == <<pc, total_proc, total_written, total_ai, total_rejected,
          total_high, total_med, pending_futures, yielded, jobs,
          company_master, ai_match_log, db_failures, match_calls,
          summary, d_score, d_decision, nrm, blk, val>>

\* the variables of the specifications of single functions
side == <<d_score, d_decision, nrm, blk, val>>

counters == <<total_proc, total_written, total_ai, total_rejected,
              total_high, total_med>>

\* ------------------------------------------------------------------------
\* Sequence helpers
\* ------------------------------------------------------------------------

Range(s) == {s[i] : i \in 1..Len(s)}

\* s without the element x (dict.pop of a key)
RECURSIVE Remove(_, _)
Remove(s, x) ==
    IF s = <<>> THEN <<>>
    ELSE IF Head(s) = x THEN Remove(Tail(s), x)
    ELSE <<Head(s)>> \o Remove(Tail(s), x)

\* the elements of s that are in S, in the order of s
RECURSIVE Filter(_, _)
Filter(s, S) ==
    IF s = <<>> THEN <<>>
    ELSE IF Head(s) \in S THEN <<Head(s)>> \o Filter(Tail(s), S)
    ELSE Filter(Tail(s), S)

\* ------------------------------------------------------------------------
\* Inputs: query rows with the candidates the blocking index gives them
\* ------------------------------------------------------------------------

\* a candidate row with its token_set_ratio and its composite_score against
\* the query (composite_score is a maximum that includes token_set_ratio)
Cand(abn, tsr, comp) == [abn |-> abn, tsr |-> tsr, comp |-> comp]

CandLists ==
    {<<>>,
     <<Cand("a1", Pts(50), Pts(60))>>,
     <<Cand("a1", Pts(77), Pts(78) - 1)>>,
     <<Cand("a2", Pts(50), Pts(50)), Cand("a1", Pts(78), Pts(78))>>,
     <<Cand("a2", Pts(79), Pts(82) - 1)>>,
     <<Cand("a1", Pts(80), Pts(90))>>,
     <<Cand("a2", Pts(95), Pts(90) + 1)>>,
     <<Cand("a1", Pts(60), Pts(85))>>,
     <<Cand("a2", Pts(79), Pts(82) - 1), Cand("a1", Pts(78), Pts(95))>>}

\* rows of cc_df: cc_norm is empty, or the row has candidates
QueryRows ==
    [website_url : Urls, norm_empty : {TRUE}, cands : {<<>>}]
    \cup [website_url : Urls, norm_empty : {FALSE}, cands : CandLists]

\* a value of the JSON object the service replies with, or its absence:
\* t is its type, v its number in hundred-thousandths (a bool: 0 or 1, an
\* infinity: its sign), s its characters when it is a string
JV(t, v, s) == [t |-> t, v |-> v, s |-> s]
Missing == JV("missing", 0, <<>>)
JNull == JV("null", 0, <<>>)
JTrue == JV("bool", 1, <<>>)
JFalse == JV("bool", 0, <<>>)
JNum(v) == JV("num", v, <<>>)
JNaN == JV("nan", 0, <<>>)
JInf(sign) == JV("inf", sign, <<>>)
JStr(s) == JV("str", 0, s)

\* what session.post and raise_for_status raise on
TransportFailures == {"timeout", "http_error"}

\* what the external service does with one request: no answer in time, text
\* without JSON, or a JSON object (confidence 2.0, confidence -0.5)
Replies ==
    {[kind |-> "timeout", same_entity |-> Missing, confidence |-> Missing],
     [kind |-> "prose", same_entity |-> Missing, confidence |-> Missing],
     [kind |-> "object", same_entity |-> JTrue,
      confidence |-> JNum(200000)],
     [kind |-> "object", same_entity |-> JFalse,
      confidence |-> JNum(0 - 50000)]}

\* ------------------------------------------------------------------------
\* Pure functions
\* ------------------------------------------------------------------------

\* rf_process.extractOne(cc_norm, candidate_norms, scorer=token_set_ratio,
\* score_cutoff=SCORE_AI_MIN - 1): index of the first candidate with the
\* greatest token_set_ratio among those at or above the cutoff, 0 for None
extractOne(cands) ==
    LET ok == {i \in 1..Len(cands) : cands[i].tsr >= Pts(SCORE_AI_MIN - 1)}
    IN IF ok = {} THEN 0
       ELSE CHOOSE i \in ok :
                \A k \in ok : \/ cands[k].tsr < cands[i].tsr
                              \/ (cands[k].tsr = cands[i].tsr /\ i <= k)

\* Decide with the top tier inclusive (score >= 90)
Decide_inclusive_high(score) ==
    IF score >= Pts(SCORE_HIGH_CONF) THEN "accept_high"
    ELSE IF score >= Pts(SCORE_MED_CONF) THEN "accept_medium"
    ELSE IF score >= Pts(SCORE_AI_MIN) THEN "escalate"
    ELSE "reject"

\* the if / elif chain of the decision tree
Decide(score) ==
    IF score > Pts(SCORE_HIGH_CONF) THEN "accept_high"
    ELSE IF score >= Pts(SCORE_MED_CONF) THEN "accept_medium"
    ELSE IF score >= Pts(SCORE_AI_MIN) THEN "escalate"
    ELSE "reject"

\* round(float(confidence), 2) of a score in thousandths, in hundredths
Round2(score) ==
    LET q == score \div 10
        r == score % 10
    IN IF r > 5 \/ (r = 5 /\ q % 2 = 1) THEN q + 1 ELSE q

\* _build_record: the columns of core.company_master the claims speak of
build_record(website_url, abn, method, confidence) ==
    [abn |-> abn, website_url |-> website_url,
     match_method |-> method, match_confidence |-> confidence]

\* bool(x) of a value of the reply; a key that is absent reads as False
truthy(x) ==
    IF x.t \in {"missing", "null"} THEN FALSE
    ELSE IF x.t \in {"bool", "num"} THEN x.v # 0
    ELSE IF x.t = "str" THEN x.s # <<>>
    ELSE TRUE

DigitChars == <<"0", "1", "2", "3", "4", "5", "6", "7", "8", "9">>

IsDigits(s) == \A i \in 1..Len(s) : \E d \in 1..10 : DigitChars[d] = s[i]

RECURSIVE digits_value(_)
digits_value(s) ==
    IF s = <<>> THEN 0
    ELSE 10 * digits_value(SubSeq(s, 1, Len(s) - 1))
         + (CHOOSE d \in 0..9 : DigitChars[d + 1] = s[Len(s)])

RECURSIVE Pow10(_)
Pow10(n) == IF n = 0 THEN 1 ELSE 10 * Pow10(n - 1)

\* float(s) of a string written as [-]digits[.digits] with at most five
\* decimals; any other string of the model's replies raises ValueError
float_of_str(s) ==
    LET neg == s # <<>> /\ s[1] = "-"
        body == IF neg THEN Tail(s) ELSE s
        dots == {i \in 1..Len(body) : body[i] = "."}
        p == IF dots = {} THEN Len(body) + 1 ELSE CHOOSE i \in dots : TRUE
        int == SubSeq(body, 1, p - 1)
        frac == SubSeq(body, p + 1, Len(body))
        ok == /\ Cardinality(dots) <= 1
              /\ IsDigits(int) /\ IsDigits(frac)
              /\ int \o frac # <<>>
              /\ Len(frac) <= 5
        mag == digits_value(int) * Pow10(5)
               + digits_value(frac) * Pow10(5 - Len(frac))
    IN IF ok THEN [raised |-> FALSE, t |-> "num",
                   v |-> IF neg THEN 0 - mag ELSE mag]
       ELSE [raised |-> TRUE, t |-> "num", v |-> 0]

\* float(x) of a value of the reply; a key that is absent reads as 0.0
to_float(x) ==
    IF x.t = "null" THEN [raised |-> TRUE, t |-> "num", v |-> 0]
    ELSE IF x.t = "missing" THEN [raised |-> FALSE, t |-> "num", v |-> 0]
    ELSE IF x.t = "bool"
    THEN [raised |-> FALSE, t |-> "num", v |-> x.v * Pow10(5)]
    ELSE IF x.t = "str" THEN float_of_str(x.s)
    ELSE [raised |-> FALSE, t |-> x.t, v |-> x.v]

\* the clamp left out
Clamp01_unclamped(c) == c

\* max(0.0, min(c, 1.0)) of a number, in hundred-thousandths
Clamp01(c) ==
    IF c < 0 THEN 0 ELSE IF c > Pow10(5) THEN Pow10(5) ELSE c

\* max(0.0, min(f, 1.0)): min(nan, 1.0) is nan and max(0.0, nan) is 0.0
clamp_float(f) ==
    IF f.t = "nan" THEN 0
    ELSE IF f.t = "inf" THEN (IF f.v > 0 THEN Pow10(5) ELSE 0)
    ELSE Clamp01(f.v)

\* round(c, 4): from hundred-thousandths to ten-thousandths (no reply of
\* the model has a 5 at the fifth decimal)
Round4(c) == (c + 5) \div 10

\* AIValidator._extract_json: the dict it returns, something that is not a
\* dict, or the exception it raises
_extract_json(reply) ==
    IF reply.kind \in {"object", "fenced", "embedded", "wrapped_in_prose"}
    THEN [raised |-> FALSE, is_dict |-> TRUE,
          same_entity |-> reply.same_entity,
          confidence |-> reply.confidence]
    ELSE IF reply.kind = "wrapped"
    THEN [raised |-> FALSE, is_dict |-> TRUE,
          same_entity |-> Missing, confidence |-> Missing]
    ELSE IF reply.kind = "array"
    THEN [raised |-> FALSE, is_dict |-> FALSE,
          same_entity |-> Missing, confidence |-> Missing]
    ELSE [raised |-> TRUE, is_dict |-> FALSE,
          same_entity |-> Missing, confidence |-> Missing]

\* the body of the second try of validate: parsed_clean, or raised
parse_reply(reply) ==
    LET parsed == _extract_json(reply)
        conf == to_float(parsed.confidence)
    IN IF parsed.raised \/ ~parsed.is_dict \/ conf.raised
       THEN [raised |-> TRUE, same_entity |-> FALSE, confidence |-> 0,
             reason |-> "raised"]
       ELSE [raised |-> FALSE, same_entity |-> truthy(parsed.same_entity),
             confidence |-> Round4(clamp_float(conf)), reason |-> "reply"]

\* validate without the except clause of its second try
validate_uncaught(reply) ==
    IF reply.kind \in TransportFailures
    THEN [raised |-> FALSE, same_entity |-> FALSE, confidence |-> 0,
          reason |-> "request_failed"]
    ELSE parse_reply(reply)

\* AIValidator.validate: the parsed verdict for what the service did
validate(reply) ==
    IF reply.kind \in TransportFailures
    THEN [raised |-> FALSE, same_entity |-> FALSE, confidence |-> 0,
          reason |-> "request_failed"]
    ELSE IF parse_reply(reply).raised
    THEN [raised |-> FALSE, same_entity |-> FALSE, confidence |-> 0,
          reason |-> "parsing_failed"]
    ELSE parse_reply(reply)

\* INSERT_MASTER as an upsert: the row of the pair is replaced
INSERT_MASTER_upsert(master, record) ==
    LET kept == {r \in BagToSet(master) :
                    r.abn # record.abn \/ r.website_url # record.website_url}
    IN [r \in kept |-> CopiesIn(r, master)] (+) SetToBag({record})

\* INSERT_MASTER without its WHERE NOT EXISTS
INSERT_MASTER_unconditional(master, record) ==
    master (+) SetToBag({record})

\* _INSERT_MASTER: INSERT ... SELECT ... WHERE NOT EXISTS (same abn and url)
INSERT_MASTER(master, record) ==
    IF \E r \in BagToSet(master) :
           /\ r.abn = record.abn
           /\ r.website_url = record.website_url
    THEN master
    ELSE master (+) SetToBag({record})

\* INSERT_AI_LOG that stores no row
INSERT_AI_LOG_skipped(log, entry) == log

\* INSERT_AI_LOG that keeps a row only for an approved verdict
INSERT_AI_LOG_approved_only(log, entry) ==
    IF entry.decision THEN log (+) SetToBag({entry}) ELSE log

\* _INSERT_AI_LOG: INSERT ... VALUES
INSERT_AI_LOG(log, entry) == log (+) SetToBag({entry})

\* DoneFutures that takes every pending future, completed or not
DoneFutures_all(pending, js) == pending

\* done = [f for f in list(pending) if f.done()]
DoneFutures(pending, js) ==
    Filter(pending, {j \in 1..Len(js) : js[j].status = "done"})

\* as_completed_exhausted that lets the loop end at once
as_completed_exhausted_early(pending, handed) == TRUE

\* for fut in as_completed(pending_futures): nothing is left to hand out
as_completed_exhausted(pending, handed) == Range(pending) \subseteq handed

\* _drain_futures, from the i-th completed future on.  st carries pending,
\* the table, total_written and the committed writes; the write of the
\* failAt-th completed future raises (0: no write raises)
RECURSIVE drain_futures(_, _, _, _, _)
drain_futures(done, i, st, js, failAt) ==
    IF i > Len(done) THEN st
    ELSE
      LET fut == done[i]
          popped == [st EXCEPT !.pending = Remove(@, fut)]
          record == build_record(js[fut].website_url, js[fut].abn,
                                 "ai_validated", js[fut].confidence)
      IN IF js[fut].raised
         THEN drain_futures(done, i + 1, popped, js, failAt)
         ELSE IF js[fut].approved
         THEN IF i = failAt
              THEN [popped EXCEPT !.raised = TRUE]
              ELSE drain_futures(done, i + 1,
                       [popped EXCEPT
                           !.master = INSERT_MASTER(@, record),
                           !.written = @ + 1,
                           !.calls[fut] = @ + 1],
                       js, failAt)
         ELSE drain_futures(done, i + 1, popped, js, failAt)

\* ------------------------------------------------------------------------
\* Initial state: counters at zero, nothing submitted; core.company_master
\* is empty or holds the rows of an earlier run
\* ------------------------------------------------------------------------

InitRun ==
    /\ pc = "loop"
    /\ total_proc = 0
    /\ total_written = 0
    /\ total_ai = 0
    /\ total_rejected = 0
    /\ total_high = 0
    /\ total_med = 0
    /\ pending_futures = <<>>
    /\ yielded = {}
    /\ jobs = <<>>
    /\ company_master \in
           {EmptyBag,
            SetToBag({build_record("u1", "a1", "fuzzy_high_conf", 10000)})}
    /\ ai_match_log = EmptyBag
    /\ db_failures = 0
    /\ match_calls = <<>>
    /\ summary = <<>>

\* nothing is in progress in the specifications of single functions
Idle == [stage |-> "idle"]

Init ==
    /\ InitRun
    /\ d_score = 0
    /\ d_decision = "none"
    /\ nrm = Idle
    /\ blk = Idle
    /\ val = Idle

\* ------------------------------------------------------------------------
\* The driver: one iteration of the loop over cc_df
\* ------------------------------------------------------------------------

\* the end of an iteration: the high-water check and the drain it triggers
LoopTail(pend, master, written, fails, js, calls, failAt) ==
    IF Len(pend) >= HighWater
    THEN LET done == DoneFutures(pend, js)
             st == drain_futures(done, 1,
                       [pending |-> pend, master |-> master,
                        written |-> written, calls |-> calls,
                        raised |-> FALSE], js, failAt)
         IN /\ failAt \in 0..Len(done)
            /\ failAt # 0 =>
                   /\ fails < MaxDbFailures
                   /\ js[done[failAt]].approved
                   /\ ~js[done[failAt]].raised
            /\ pending_futures' = st.pending
            /\ company_master' = st.master
            /\ total_written' = st.written
            /\ match_calls' = st.calls
            /\ db_failures' = IF st.raised THEN fails + 1 ELSE fails
            /\ pc' = IF st.raised THEN "aborting" ELSE "loop"
    ELSE /\ failAt = 0
         /\ pending_futures' = pend
         /\ company_master' = master
         /\ total_written' = written
         /\ match_calls' = calls
         /\ db_failures' = fails
         /\ pc' = "loop"

\* cc_norm is empty, or _get_candidates returns nothing: continue
SkipRecord(row) ==
    /\ pc = "loop"
    /\ total_proc < MaxRecords
    /\ row.norm_empty \/ row.cands = <<>>
    /\ total_proc' = total_proc + 1
    /\ UNCHANGED <<pc, total_written, total_ai, total_rejected, total_high,
                   total_med, pending_futures, yielded, jobs,
                   company_master, ai_match_log, db_failures, match_calls,
                   summary, nrm, blk, val, d_score, d_decision>>

\* extractOne finds no candidate at or above the cutoff: rejected, continue
PrefilterReject(row) ==
    /\ pc = "loop"
    /\ total_proc < MaxRecords
    /\ ~row.norm_empty
    /\ row.cands # <<>>
    /\ extractOne(row.cands) = 0
    /\ total_proc' = total_proc + 1
    /\ total_rejected' = total_rejected + 1
    /\ UNCHANGED <<pc, total_written, total_ai, total_high, total_med,
                   pending_futures, yielded, jobs, company_master,
                   ai_match_log, db_failures, match_calls, summary,
                   nrm, blk, val, d_score, d_decision>>

\* the survivor of the pre-filter and its composite score
Survivor(row) == row.cands[extractOne(row.cands)]

Scored(row) ==
    /\ pc = "loop"
    /\ total_proc < MaxRecords
    /\ ~row.norm_empty
    /\ row.cands # <<>>
    /\ extractOne(row.cands) # 0

\* score > 90 or score >= 82: written at once, then the high-water check
AcceptRecord(row, write_ok, failAt) ==
    /\ Scored(row)
    /\ LET abr_row == Survivor(row)
           score == abr_row.comp
           high == Decide(score) = "accept_high"
           method == IF high THEN "fuzzy_high_conf" ELSE "fuzzy_med_conf"
           record == build_record(row.website_url, abr_row.abn, method,
                                  Round2(score))
       IN /\ Decide(score) \in {"accept_high", "accept_medium"}
          /\ total_proc' = total_proc + 1
          /\ IF write_ok
             THEN /\ total_high' = IF high THEN total_high + 1 ELSE total_high
                  /\ total_med' = IF high THEN total_med ELSE total_med + 1
                  /\ LoopTail(pending_futures,
                              INSERT_MASTER(company_master, record),
                              total_written + 1, db_failures, jobs,
                              match_calls, failAt)
             ELSE /\ db_failures < MaxDbFailures
                  /\ failAt = 0
                  /\ db_failures' = db_failures + 1
                  /\ pc' = "aborting"
                  /\ UNCHANGED <<total_high, total_med, total_written,
                                 pending_futures, company_master,
                                 match_calls>>
    /\ UNCHANGED <<total_ai, total_rejected, yielded, jobs, ai_match_log,
                   summary, nrm, blk, val, d_score, d_decision>>

\* 78 <= score < 82: executor.submit(self._run_ai_job, ...), then the check
EscalateRecord(row, failAt) ==
    /\ Scored(row)
    /\ LET abr_row == Survivor(row)
           score == abr_row.comp
           fut == Len(jobs) + 1
           js == Append(jobs,
                     [website_url |-> row.website_url, abn |-> abr_row.abn,
                      fuzzy_score |-> score, status |-> "queued",
                      approved |-> FALSE, confidence |-> 0,
                      raised |-> FALSE])
       IN /\ Decide(score) = "escalate"
          /\ total_proc' = total_proc + 1
          /\ total_ai' = total_ai + 1
          /\ jobs' = js
          /\ LoopTail(Append(pending_futures, fut), company_master,
                      total_written, db_failures, js,
                      Append(match_calls, 0), failAt)
    /\ UNCHANGED <<total_rejected, total_high, total_med, yielded,
                   ai_match_log, summary, nrm, blk, val, d_score, d_decision>>

\* score < 78: rejected, then the high-water check
RejectRecord(row, failAt) ==
    /\ Scored(row)
    /\ Decide(Survivor(row).comp) = "reject"
    /\ total_proc' = total_proc + 1
    /\ total_rejected' = total_rejected + 1
    /\ LoopTail(pending_futures, company_master, total_written,
                db_failures, jobs, match_calls, failAt)
    /\ UNCHANGED <<total_ai, total_high, total_med, yielded, jobs,
                   ai_match_log, summary, nrm, blk, val, d_score, d_decision>>

\* cc_df has no more rows: "Waiting for remaining AI calls to finish"
EndOfRecords ==
    /\ pc = "loop"
    /\ pc' = "final"
    /\ UNCHANGED <<counters, pending_futures, yielded, jobs, company_master,
                   ai_match_log, db_failures, match_calls, summary,
                   nrm, blk, val, d_score, d_decision>>

\* ------------------------------------------------------------------------
\* The executor: ai_workers threads run _run_ai_job for the queued futures
\* ------------------------------------------------------------------------

Running == {j \in 1..Len(jobs) : jobs[j].status = "running"}
Queued == {j \in 1..Len(jobs) : jobs[j].status = "queued"}

\* an idle worker takes the oldest queued work item and posts the request
StartJob(j) ==
    /\ j \in Queued
    /\ \A k \in Queued : j <= k
    /\ Cardinality(Running) < ai_workers
    /\ jobs' = [jobs EXCEPT ![j].status = "running"]
    /\ UNCHANGED <<pc, counters, pending_futures, yielded, company_master,
                   ai_match_log, db_failures, match_calls, summary,
                   nrm, blk, val, d_score, d_decision>>

\* the rest of _run_ai_job: validate returns, the log row is written (or
\* the INSERT raises), the future resolves
FinishJob(j, reply, log_ok) ==
    /\ j \in Running
    /\ LET parsed == validate(reply)
           approved == parsed.same_entity
       IN IF log_ok
          THEN /\ ai_match_log' = INSERT_AI_LOG(ai_match_log,
                     [job |-> j, company_b |-> jobs[j].abn,
                      fuzzy_score |-> jobs[j].fuzzy_score,
                      decision |-> approved])
               /\ jobs' = [jobs EXCEPT ![j].status = "done",
                                       ![j].approved = approved,
                                       ![j].confidence = parsed.confidence]
               /\ UNCHANGED db_failures
          ELSE /\ db_failures < MaxDbFailures
               /\ db_failures' = db_failures + 1
               /\ jobs' = [jobs EXCEPT ![j].status = "done",
                                       ![j].raised = TRUE]
               /\ UNCHANGED ai_match_log
    /\ UNCHANGED <<pc, counters, pending_futures, yielded, company_master,
                   match_calls, summary, nrm, blk, val, d_score, d_decision>>

\* ------------------------------------------------------------------------
\* The driver after the loop
\* ------------------------------------------------------------------------

\* one iteration of "for fut in as_completed(pending_futures)"
FinalDrain(fut, write_ok) ==
    /\ pc = "final"
    /\ fut \in Range(pending_futures) \ yielded
    /\ jobs[fut].status = "done"
    /\ yielded' = yielded \cup {fut}
    /\ LET record == build_record(jobs[fut].website_url, jobs[fut].abn,
                                  "ai_validated", jobs[fut].confidence)
       IN IF jobs[fut].raised \/ ~jobs[fut].approved
          THEN /\ write_ok
               /\ UNCHANGED <<pc, total_written, company_master, match_calls,
                              db_failures>>
          ELSE IF write_ok
          THEN /\ company_master' = INSERT_MASTER(company_master, record)
               /\ total_written' = total_written + 1
               /\ match_calls' = [match_calls EXCEPT ![fut] = @ + 1]
               /\ UNCHANGED <<pc, db_failures>>
          ELSE /\ db_failures < MaxDbFailures
               /\ db_failures' = db_failures + 1
               /\ pc' = "aborting"
               /\ UNCHANGED <<total_written, company_master, match_calls>>
    /\ UNCHANGED <<total_proc, total_ai, total_rejected, total_high,
                   total_med, pending_futures, jobs, ai_match_log, summary,
                   nrm, blk, val, d_score, d_decision>>

\* the with block is left and the final summary is printed
FinalSummary ==
    /\ pc = "final"
    /\ as_completed_exhausted(pending_futures, yielded)
    /\ pc' = "done"
    /\ summary' = <<[processed |-> total_proc, written |-> total_written,
                     high |-> total_high, med |-> total_med,
                     ai_approved |-> total_written - total_high - total_med,
                     ai_calls |-> total_ai, rejected |-> total_rejected]>>
    /\ UNCHANGED <<counters, pending_futures, yielded, jobs, company_master,
                   ai_match_log, db_failures, match_calls, nrm, blk, val,
                   d_score, d_decision>>

\* a _write_match raised inside the with block: ThreadPoolExecutor.__exit__
\* waits for every submitted future, then the exception leaves fuzzy_match
Shutdown ==
    /\ pc = "aborting"
    /\ \A j \in 1..Len(jobs) : jobs[j].status = "done"
    /\ pc' = "aborted"
    /\ UNCHANGED <<counters, pending_futures, yielded, jobs, company_master,
                   ai_match_log, db_failures, match_calls, summary,
                   nrm, blk, val, d_score, d_decision>>

\* ------------------------------------------------------------------------
\* Specifications
\* ------------------------------------------------------------------------

ProcessRecord ==
    \E row \in QueryRows :
        \/ SkipRecord(row)
        \/ PrefilterReject(row)
        \/ \E failAt \in 0..MaxRecords :
               \/ \E write_ok \in BOOLEAN : AcceptRecord(row, write_ok, failAt)
               \/ EscalateRecord(row, failAt)
               \/ RejectRecord(row, failAt)

Driver ==
    \/ ProcessRecord
    \/ EndOfRecords
    \/ \E fut \in 1..MaxRecords, write_ok \in BOOLEAN :
           FinalDrain(fut, write_ok)
    \/ FinalSummary
    \/ Shutdown

Workers ==
    \/ \E j \in 1..MaxRecords : StartJob(j)
    \/ \E j \in 1..MaxRecords, reply \in Replies, log_ok \in BOOLEAN :
           FinishJob(j, reply, log_ok)

Next == Driver \/ Workers

Spec == Init /\ [][Next]_vars

\* the driver thread and the pool's threads keep running, and an external
\* call returns or runs into its timeout
FairSpec == Spec /\ WF_vars(Driver) /\ WF_vars(Workers)

\* ------------------------------------------------------------------------
\* The decision tree on its own: any score in [0,100], then the branch taken
\* ------------------------------------------------------------------------

DecideInit ==
    /\ InitRun
    /\ company_master = EmptyBag
    /\ d_score \in 0..MaxScore
    /\ d_decision = "none"
    /\ nrm = Idle
    /\ blk = Idle
    /\ val = Idle

ApplyDecide ==
    /\ d_decision = "none"
    /\ d_decision' = Decide(d_score)
    /\ UNCHANGED <<pc, counters, pending_futures, yielded, jobs,
                   company_master, ai_match_log, db_failures, match_calls,
                   summary, d_score, nrm, blk, val>>

DecideSpec == DecideInit /\ [][ApplyDecide]_vars

\* ------------------------------------------------------------------------
\* Names.  A string is the sequence of its characters; None is the one
\* value that is not a string
\* ------------------------------------------------------------------------

None == <<"None">>

LowerCase ==
    {"a", "b", "c", "d", "e", "f", "g", "h", "i", "j", "k", "l", "m",
     "n", "o", "p", "q", "r", "s", "t", "u", "v", "w", "x", "y", "z"}
UpperCase == {"D", "L", "T"}
Digits == {"0", "1", "2", "3", "4", "5", "6", "7", "8", "9"}

\* \w and \s of the re module, on the characters the model uses
WordChars == LowerCase \cup UpperCase \cup Digits \cup {"_"}
WhiteSpace == {" ", "\t"}

\* str.lower() of one character
lower_char(c) ==
    IF c = "D" THEN "d" ELSE IF c = "L" THEN "l" ELSE IF c = "T" THEN "t"
    ELSE c

lower(s) == [i \in 1..Len(s) |-> lower_char(s[i])]

\* \b before position i (1..Len(s)+1): exactly one neighbour is a \w
IsWordAt(s, i) == i >= 1 /\ i <= Len(s) /\ s[i] \in WordChars
Boundary(s, i) == IsWordAt(s, i - 1) # IsWordAt(s, i)

\* the literal lit stands in s at position i
LitAt(s, i, lit) ==
    /\ i + Len(lit) - 1 <= Len(s)
    /\ \A k \in 1..Len(lit) : s[i + k - 1] = lit[k]

\* the length of the run of \s that starts at position i
RECURSIVE WsRun(_, _)
WsRun(s, i) ==
    IF i <= Len(s) /\ s[i] \in WhiteSpace THEN 1 + WsRun(s, i + 1) ELSE 0

\* the first alternative of _LEGAL_SUFFIX_RE, pty\.?\s*ltd\.? and the
\* closing \b: the length it matches at position i, 0 if it does not
PtyLtdLen(s, i) ==
    IF ~LitAt(s, i, <<"p", "t", "y">>) THEN 0
    ELSE LET j == IF LitAt(s, i + 3, <<".">>) THEN i + 4 ELSE i + 3
             k == j + WsRun(s, j)
         IN IF ~LitAt(s, k, <<"l", "t", "d">>) THEN 0
            ELSE IF LitAt(s, k + 3, <<".">>) /\ Boundary(s, k + 4)
            THEN k + 4 - i
            ELSE IF Boundary(s, k + 3) THEN k + 3 - i
            ELSE 0

\* the other alternatives of _LEGAL_SUFFIX_RE in the order the regex tries
\* them, an optional character first with it and then without
SuffixLiterals ==
    <<<<"p", "/", "l">>,
      <<"l", "t", "d", ".">>,
      <<"l", "t", "d">>,
      <<"l", "i", "m", "i", "t", "e", "d">>,
      <<"i", "n", "c", ".">>,
      <<"i", "n", "c">>,
      <<"i", "n", "c", "o", "r", "p", "o", "r", "a", "t", "e", "d">>,
      <<"c", "o", "r", "p", ".">>,
      <<"c", "o", "r", "p">>,
      <<"c", "o", "r", "p", "o", "r", "a", "t", "i", "o", "n">>,
      <<"h", "o", "l", "d", "i", "n", "g", "s">>,
      <<"h", "o", "l", "d", "i", "n", "g">>,
      <<"g", "r", "o", "u", "p">>,
      <<"t", "r", "u", "s", "t">>,
      <<"s", "e", "r", "v", "i", "c", "e", "s">>,
      <<"s", "e", "r", "v", "i", "c", "e">>,
      <<"s", "o", "l", "u", "t", "i", "o", "n", "s">>,
      <<"s", "o", "l", "u", "t", "i", "o", "n">>,
      <<"a", "u", "s", "t", "r", "a", "l", "i", "a">>,
      <<"a", "u", "s", "t", ".">>,
      <<"a", "u", "s", "t">>,
      <<"n", "s", "w">>,
      <<"v", "i", "c">>,
      <<"q", "l", "d">>,
      <<"w", "a">>,
      <<"s", "a">>,
      <<"t", "a", "s">>,
      <<"a", "c", "t">>,
      <<"n", "t">>>>

\* the length of the first of SuffixLiterals[n..] that stands at position
\* i and is followed by \b, 0 if there is none
RECURSIVE LiteralLen(_, _, _)
LiteralLen(s, i, n) ==
    IF n > Len(SuffixLiterals) THEN 0
    ELSE LET lit == SuffixLiterals[n]
         IN IF LitAt(s, i, lit) /\ Boundary(s, i + Len(lit))
            THEN Len(lit)
            ELSE LiteralLen(s, i, n + 1)

\* the length _LEGAL_SUFFIX_RE matches at position i, 0 if it does not
MatchLen(s, i) ==
    IF ~Boundary(s, i) \/ ~IsWordAt(s, i) THEN 0
    ELSE IF PtyLtdLen(s, i) > 0 THEN PtyLtdLen(s, i)
    ELSE LiteralLen(s, i, 1)

\* _LEGAL_SUFFIX_RE.sub("", name), from position i on
RECURSIVE sub_suffix(_, _)
sub_suffix(s, i) ==
    IF i > Len(s) THEN <<>>
    ELSE IF MatchLen(s, i) > 0 THEN sub_suffix(s, i + MatchLen(s, i))
    ELSE <<s[i]>> \o sub_suffix(s, i + 1)

\* sub_punct that deletes the character instead of putting a space
RECURSIVE sub_punct_deleting(_)
sub_punct_deleting(s) ==
    IF s = <<>> THEN <<>>
    ELSE IF Head(s) \in WordChars \cup WhiteSpace
    THEN <<Head(s)>> \o sub_punct_deleting(Tail(s))
    ELSE sub_punct_deleting(Tail(s))

\* _PUNCT_RE.sub(" ", name)
sub_punct(s) ==
    [i \in 1..Len(s) |->
        IF s[i] \in WordChars \cup WhiteSpace THEN s[i] ELSE " "]

\* _WHITESPACE_RE.sub(" ", name)
RECURSIVE sub_whitespace(_)
sub_whitespace(s) ==
    IF s = <<>> THEN <<>>
    ELSE IF Head(s) \in WhiteSpace
    THEN <<" ">> \o sub_whitespace(SubSeq(s, 1 + WsRun(s, 1), Len(s)))
    ELSE <<Head(s)>> \o sub_whitespace(Tail(s))

\* str.strip()
RECURSIVE strip(_)
strip(s) ==
    IF s = <<>> THEN <<>>
    ELSE IF Head(s) \in WhiteSpace THEN strip(Tail(s))
    ELSE IF s[Len(s)] \in WhiteSpace THEN strip(SubSeq(s, 1, Len(s) - 1))
    ELSE s

strong_normalize(name) ==
    IF name = None \/ name = <<>> THEN <<>>
    ELSE strip(sub_whitespace(sub_punct(sub_suffix(lower(name), 1))))

\* ------------------------------------------------------------------------
\* strong_normalize on its own: a name, normalised, normalised again
\* ------------------------------------------------------------------------

\* pieces the names of this specification are put together from
Chunks ==
    {<<" ">>,
     <<".">>,
     <<"/">>,
     <<"-">>,
     <<"_">>,
     <<"p">>,
     <<"l">>,
     <<"t", "d">>,
     <<"a", "b">>,
     <<"p", "t", "y">>,
     <<"l", "t", "d">>,
     <<"L", "T", "D">>,
     <<"i", "n", "c">>,
     <<"n", "s", "w">>,
     <<"g", "r", "o", "u", "p">>,
     <<"s">>}

RECURSIVE Concat(_)
Concat(ss) == IF ss = <<>> THEN <<>> ELSE Head(ss) \o Concat(Tail(ss))

NameInputs ==
    {None} \cup
    {Concat(cs) : cs \in UNION {[1..n -> Chunks] : n \in 0..MaxChunks}}

NormInit ==
    /\ InitRun
    /\ company_master = EmptyBag
    /\ d_score = 0
    /\ d_decision = "none"
    /\ nrm \in {[stage |-> "input", name |-> n] : n \in NameInputs}
    /\ blk = Idle
    /\ val = Idle

NormalizeOnce ==
    /\ nrm.stage = "input"
    /\ nrm' = [stage |-> "once", name |-> nrm.name,
               once |-> strong_normalize(nrm.name)]
    /\ UNCHANGED <<pc, counters, pending_futures, yielded, jobs,
                   company_master, ai_match_log, db_failures, match_calls,
                   summary, d_score, d_decision, blk, val>>

NormalizeTwice ==
    /\ nrm.stage = "once"
    /\ nrm' = [stage |-> "twice", name |-> nrm.name, once |-> nrm.once,
               twice |-> strong_normalize(nrm.once)]
    /\ UNCHANGED <<pc, counters, pending_futures, yielded, jobs,
                   company_master, ai_match_log, db_failures, match_calls,
                   summary, d_score, d_decision, blk, val>>

NormNext == NormalizeOnce \/ NormalizeTwice

NormSpec == NormInit /\ [][NormNext]_vars

\* ------------------------------------------------------------------------
\* The blocking index and candidate retrieval on their own: a reference
\* set, build_indexes, then the candidates of one query record
\* ------------------------------------------------------------------------

\* normalized_name values of staging.abr_clean and commoncrawl_clean
RefNames ==
    {<<"a", "b", " ", "c", "d">>,
     <<"a", "b">>,
     <<"a", "b", "c">>,
     <<"a", "b", "c", "d">>,
     <<"c", "d", " ", "a", "b">>,
     <<"n", "s", "w", " ", "a", "b">>,
     <<"h", "o", "l", "d", "i", "n", "g", "s">>}

\* abn is unique in the reference set (one row per abn is kept upstream):
\* the row at position i has abn i
ReferenceSets ==
    UNION {[1..n -> RefNames] : n \in 0..MaxRefs}

abr_df(names) ==
    [i \in 1..Len(names) |-> [abn |-> i, normalized_name |-> names[i]]]

\* abr_df["strong_norm"] taken from the column as it is
with_strong_norm_unnormalized(row) ==
    [abn |-> row.abn, normalized_name |-> row.normalized_name,
     strong_norm |-> row.normalized_name]

\* abr_df["strong_norm"] = abr_df["normalized_name"].apply(strong_normalize)
with_strong_norm(row) ==
    [abn |-> row.abn, normalized_name |-> row.normalized_name,
     strong_norm |-> strong_normalize(row.normalized_name)]

\* sn[:3]
prefix3(sn) == SubSeq(sn, 1, IF Len(sn) < 3 THEN Len(sn) ELSE 3)

\* sn.split()[0] if sn.split() else sn
RECURSIVE first_word(_)
first_word(s) ==
    IF s = <<>> \/ Head(s) \in WhiteSpace THEN <<>>
    ELSE <<Head(s)>> \o first_word(Tail(s))

first_tok(sn) ==
    LET body == SubSeq(sn, 1 + WsRun(sn, 1), Len(sn))
    IN IF body = <<>> THEN sn ELSE first_word(body)

\* a defaultdict(list): d[k].append(v), and d.get(k, [])
EmptyDict == [k \in {} |-> <<>>]

DictAppend(d, k, v) ==
    [x \in DOMAIN d \cup {k} |->
        IF x = k THEN (IF k \in DOMAIN d THEN Append(d[k], v) ELSE <<v>>)
        ELSE d[x]]

DictGet(d, k) == IF k \in DOMAIN d THEN d[k] ELSE <<>>

_names(d) ==
    [k \in DOMAIN d |-> [i \in 1..Len(d[k]) |-> d[k][i].strong_norm]]

\* the loop of build_indexes without its test of an empty strong_norm
RECURSIVE index_rows_keeping_empty(_, _, _, _)
index_rows_keeping_empty(rows, i, by_prefix3, by_token1) ==
    IF i > Len(rows) THEN <<by_prefix3, by_token1>>
    ELSE LET sn == rows[i].strong_norm
         IN index_rows_keeping_empty(rows, i + 1,
                DictAppend(by_prefix3, prefix3(sn), rows[i]),
                DictAppend(by_token1, first_tok(sn), rows[i]))

\* the loop of build_indexes over the rows from position i on
RECURSIVE index_rows(_, _, _, _)
index_rows(rows, i, by_prefix3, by_token1) ==
    IF i > Len(rows) THEN <<by_prefix3, by_token1>>
    ELSE LET sn == rows[i].strong_norm
         IN IF sn = <<>>
            THEN index_rows(rows, i + 1, by_prefix3, by_token1)
            ELSE index_rows(rows, i + 1,
                     DictAppend(by_prefix3, prefix3(sn), rows[i]),
                     DictAppend(by_token1, first_tok(sn), rows[i]))

build_indexes(df) ==
    LET rows == [i \in 1..Len(df) |-> with_strong_norm(df[i])]
        idx == index_rows(rows, 1, EmptyDict, EmptyDict)
    IN [by_prefix3 |-> idx[1], names_prefix3 |-> _names(idx[1]),
        by_token1 |-> idx[2], names_token1 |-> _names(idx[2])]

\* the inner loop of _get_candidates without seen_abns
RECURSIVE take_bucket_all(_, _, _, _)
take_bucket_all(bucket_rows, bucket_norms, i, acc) ==
    IF i > Len(bucket_rows) \/ i > Len(bucket_norms) THEN acc
    ELSE take_bucket_all(bucket_rows, bucket_norms, i + 1,
             [seen_abns |-> acc.seen_abns \cup {bucket_rows[i].abn},
              rows |-> Append(acc.rows, bucket_rows[i]),
              norms |-> Append(acc.norms, bucket_norms[i])])

\* the inner loop of _get_candidates over zip(bucket_rows, bucket_norms)
RECURSIVE take_bucket(_, _, _, _)
take_bucket(bucket_rows, bucket_norms, i, acc) ==
    IF i > Len(bucket_rows) \/ i > Len(bucket_norms) THEN acc
    ELSE IF bucket_rows[i].abn \in acc.seen_abns
    THEN take_bucket(bucket_rows, bucket_norms, i + 1, acc)
    ELSE take_bucket(bucket_rows, bucket_norms, i + 1,
             [seen_abns |-> acc.seen_abns \cup {bucket_rows[i].abn},
              rows |-> Append(acc.rows, bucket_rows[i]),
              norms |-> Append(acc.norms, bucket_norms[i])])

_get_candidates(cc_norm, by_prefix3, names_prefix3, by_token1, names_token1) ==
    LET key3 == prefix3(cc_norm)
        keytok == first_tok(cc_norm)
        none == [seen_abns |-> {}, rows |-> <<>>, norms |-> <<>>]
        first == take_bucket(DictGet(by_prefix3, key3),
                             DictGet(names_prefix3, key3), 1, none)
    IN take_bucket(DictGet(by_token1, keytok),
                   DictGet(names_token1, keytok), 1, first)

BlockInit ==
    /\ InitRun
    /\ company_master = EmptyBag
    /\ d_score = 0
    /\ d_decision = "none"
    /\ nrm = Idle
    /\ blk \in {[stage |-> "loaded", abr_df |-> abr_df(names)] :
                   names \in ReferenceSets}
    /\ val = Idle

BuildIndexes ==
    /\ blk.stage = "loaded"
    /\ blk' = [stage |-> "indexed", abr_df |-> blk.abr_df,
               index |-> build_indexes(blk.abr_df)]
    /\ UNCHANGED <<pc, counters, pending_futures, yielded, jobs,
                   company_master, ai_match_log, db_failures, match_calls,
                   summary, d_score, d_decision, nrm, val>>

\* one query record of fuzzy_match up to its candidates: a record whose
\* cc_norm is empty is passed over before any retrieval
GetCandidates(normalized_name) ==
    /\ blk.stage = "indexed"
    /\ LET cc_norm == strong_normalize(normalized_name)
           ix == blk.index
           got == _get_candidates(cc_norm, ix.by_prefix3, ix.names_prefix3,
                                  ix.by_token1, ix.names_token1)
       IN blk' = [stage |-> IF cc_norm = <<>> THEN "passed" ELSE "retrieved",
                  abr_df |-> blk.abr_df, index |-> blk.index,
                  normalized_name |-> normalized_name,
                  cc_norm |-> cc_norm,
                  candidates |-> IF cc_norm = <<>> THEN <<>> ELSE got.rows,
                  candidate_norms |->
                      IF cc_norm = <<>> THEN <<>> ELSE got.norms]
    /\ UNCHANGED <<pc, counters, pending_futures, yielded, jobs,
                   company_master, ai_match_log, db_failures, match_calls,
                   summary, d_score, d_decision, nrm, val>>

BlockNext ==
    \/ BuildIndexes
    \/ \E normalized_name \in RefNames : GetCandidates(normalized_name)

BlockSpec == BlockInit /\ [][BlockNext]_vars

\* ------------------------------------------------------------------------
\* One validation job on its own: a reply of the service, _run_ai_job,
\* then the drain that turns an approval into a MatchRecord
\* ------------------------------------------------------------------------

\* replies that carry a flat JSON object: alone, inside markdown fences,
\* inside prose, or as the inner object of a nested one inside prose
ObjectKinds == {"object", "fenced", "embedded", "wrapped_in_prose"}

SameEntityValues ==
    {Missing, JNull, JTrue, JFalse, JNum(0), JNum(100000),
     JStr(<<"f", "a", "l", "s", "e">>), JStr(<<>>)}

ConfidenceValues ==
    {Missing, JNull, JTrue, JNum(0 - 50000), JNum(0), JNum(87654),
     JNum(87656), JNum(100000), JNum(200000), JNaN, JInf(1), JInf(0 - 1),
     JStr(<<"0", ".", "9">>), JStr(<<"1", ".", "5">>),
     JStr(<<"h", "i", "g", "h">>), JStr(<<>>)}

\* everything the service can do with one request: the transport fails,
\* or it sends prose without braces, a block that is not JSON, a JSON
\* array, a nested object, or a flat object in one of its wrappings
ServiceReplies ==
    [kind : TransportFailures \cup {"prose", "broken", "array", "wrapped"},
     same_entity : {Missing}, confidence : {Missing}]
    \cup [kind : ObjectKinds, same_entity : SameEntityValues,
          confidence : ConfidenceValues]

\* _run_ai_job: validate, one log row, then (approved, confidence)
_run_ai_job(reply, log_ok) ==
    LET parsed == validate(reply)
    IN IF parsed.raised \/ ~log_ok
       THEN [raised |-> TRUE, logged |-> FALSE, approved |-> FALSE,
             confidence |-> 0]
       ELSE [raised |-> FALSE, logged |-> TRUE,
             approved |-> parsed.same_entity,
             confidence |-> parsed.confidence]

ValidateInit ==
    /\ InitRun
    /\ company_master = EmptyBag
    /\ d_score = 0
    /\ d_decision = "none"
    /\ nrm = Idle
    /\ blk = Idle
    /\ val \in {[stage |-> "submitted", reply |-> r] : r \in ServiceReplies}

RunAiJob(log_ok) ==
    /\ val.stage = "submitted"
    /\ val' = [stage |-> "resolved", reply |-> val.reply,
               log_ok |-> log_ok,
               parsed |-> validate(val.reply),
               job |-> _run_ai_job(val.reply, log_ok),
               records |-> <<>>]
    /\ UNCHANGED <<pc, counters, pending_futures, yielded, jobs,
                   company_master, ai_match_log, db_failures, match_calls,
                   summary, d_score, d_decision, nrm, blk>>

\* the body of the loop of _drain_futures for this job
DrainVerdict ==
    /\ val.stage = "resolved"
    /\ val' = [val EXCEPT
                 !.stage = "drained",
                 !.records =
                     IF ~val.job.raised /\ val.job.approved
                     THEN <<build_record("u1", "a1", "ai_validated",
                                         val.job.confidence)>>
                     ELSE <<>>]
    /\ UNCHANGED <<pc, counters, pending_futures, yielded, jobs,
                   company_master, ai_match_log, db_failures, match_calls,
                   summary, d_score, d_decision, nrm, blk>>

ValidateNext ==
    \/ \E log_ok \in BOOLEAN : RunAiJob(log_ok)
    \/ DrainVerdict

ValidateSpec == ValidateInit /\ [][ValidateNext]_vars

\* ------------------------------------------------------------------------
\* Properties
\* ------------------------------------------------------------------------

JobIds == 1..Len(jobs)

\* fuzzy_match has returned or raised
RunEnded == pc \in {"done", "aborted"}

\* the ValidationJobs the driver has not consumed yet
InFlight == Range(pending_futures) \ yielded

\* rows of core.ai_match_log written by job j
LogCount(j) ==
    BagCardinality([e \in {x \in BagToSet(ai_match_log) : x.job = j}
                       |-> CopiesIn(e, ai_match_log)])

\* rows of core.company_master for the pair of job j
HasMatch(j) ==
    \E r \in BagToSet(company_master) :
        r.abn = jobs[j].abn /\ r.website_url = jobs[j].website_url

\* job j returned an approved verdict
Approved(j) ==
    jobs[j].status = "done" /\ ~jobs[j].raised /\ jobs[j].approved

\* C1: when the summary is printed, processed = accepted_high +
\* accepted_medium + ai_approved + ai_rejected + rejected_outright, where
\* ai_rejected is every AI call that did not end in an approved write
C1_TotalsPartition ==
    summary # <<>> =>
        LET t == summary[1]
            ai_rejected == t.ai_calls - t.ai_approved
        IN t.processed =
               t.high + t.med + t.ai_approved + ai_rejected + t.rejected

\* C2: the number of in-flight ValidationJobs never exceeds 2 * ai_workers
C2_InFlightBounded == Cardinality(InFlight) <= 2 * ai_workers

\* C3 as claimed: when the run has ended, every ValidationJob has exactly
\* one row in core.ai_match_log, also when its INSERT raised
C3_OneLogWhateverOutcome ==
    RunEnded => \A j \in JobIds : LogCount(j) = 1

\* C3 as amended: no ValidationJob ever has two log rows; a resolved job
\* has exactly one row unless its own log INSERT raised, and then none;
\* when the run has ended every job is resolved
C3_OneLogUnlessInsertRaised ==
    \A j \in JobIds :
        /\ LogCount(j) <= 1
        /\ jobs[j].status # "done" => LogCount(j) = 0
        /\ jobs[j].status = "done" =>
               LogCount(j) = IF jobs[j].raised THEN 0 ELSE 1
        /\ RunEnded => jobs[j].status = "done"

\* a finished run with a job whose call failed or was unparsable or was
\* answered "no" (one row, decision false), and a job whose INSERT raised
C3_Witness ==
    /\ RunEnded
    /\ \E j \in JobIds :
           /\ ~jobs[j].raised /\ ~jobs[j].approved /\ LogCount(j) = 1
           /\ \E e \in BagToSet(ai_match_log) : e.job = j /\ ~e.decision
    /\ \E j \in JobIds : jobs[j].raised /\ LogCount(j) = 0

\* C4: core.company_master never holds two rows with the same
\* (abn, website_url), whatever writes the run has issued
C4_UniquePair ==
    \A r1 \in BagToSet(company_master) :
        /\ CopiesIn(r1, company_master) = 1
        /\ \A r2 \in BagToSet(company_master) :
               (r1.abn = r2.abn /\ r1.website_url = r2.website_url)
                   => r1 = r2

\* two approved jobs of the same pair have both been written, and the
\* table holds a row of that pair
C4_Witness ==
    \E j1 \in JobIds, j2 \in JobIds :
        /\ j1 # j2
        /\ jobs[j1].abn = jobs[j2].abn
        /\ jobs[j1].website_url = jobs[j2].website_url
        /\ match_calls[j1] = 1
        /\ match_calls[j2] = 1
        /\ HasMatch(j1)

C6_NeverAborts ==
    db_failures > 0 => pc \notin {"aborting", "aborted"}

\* C7: once a job has completed with an approved verdict, the row of its
\* pair is in core.company_master
C7_MatchWrittenInJob ==
    \A j \in JobIds : Approved(j) => HasMatch(j)

\* C8: no job is written twice, and when the run has ended every approved
\* job has been written exactly once and every other job never
C8_OneWritePerApprovedJob ==
    \A j \in JobIds :
        /\ match_calls[j] <= 1
        /\ match_calls[j] = 1 => Approved(j)
        /\ RunEnded => match_calls[j] = IF Approved(j) THEN 1 ELSE 0

\* C9: when the summary is printed every submitted ValidationJob has
\* resolved and the driver has consumed it
C9_SummaryAfterDrain ==
    summary # <<>> =>
        /\ InFlight = {}
        /\ \A j \in JobIds : jobs[j].status = "done"

\* the summary of a run in which one job was consumed by a drain of the
\* loop and another by the final drain
C9_Witness ==
    /\ summary # <<>>
    /\ \E j \in JobIds : j \notin Range(pending_futures)
    /\ \E j \in JobIds : j \in yielded

\* C10: an iteration of the query loop removes from pending_futures only
\* futures that had completed before it, keeps every other one, and when
\* the high-water drain runs to its end removes every completed one
C10_DrainNonBlocking ==
    [][(pc = "loop" /\ total_proc' = total_proc + 1) =>
          LET wasDone == {j \in JobIds : jobs[j].status = "done"}
              before == Range(pending_futures)
                        \cup (1..Len(jobs') \ JobIds)
              after == Range(pending_futures')
          IN /\ after \subseteq before
             /\ (before \ after) \subseteq wasDone
             /\ (before \ wasDone) \subseteq after
             /\ (Cardinality(before) >= 2 * ai_workers /\ pc' = "loop"
                 /\ Len(jobs') > Len(jobs))
                    => after = before \ wasDone
      ]_vars

\* the driver has left the query loop with more than 2 * ai_workers jobs
\* submitted and none of them completed
C10_Witness ==
    /\ pc = "final"
    /\ Len(jobs) > 2 * ai_workers
    /\ \A j \in JobIds : jobs[j].status # "done"
    /\ Range(pending_futures) = JobIds

\* C11: a row for which candidate retrieval returns nothing is counted as
\* rejected (total_rejected grows by one), submits no job and writes
\* nothing
C11_NoCandidatesCountedRejected ==
    [][\A row \in QueryRows :
           (~row.norm_empty /\ row.cands = <<>> /\ SkipRecord(row)) =>
               /\ total_rejected' = total_rejected + 1
               /\ jobs' = jobs
               /\ company_master' = company_master
               /\ ai_match_log' = ai_match_log
      ]_vars

\* C18: normalising a normalised name changes nothing, and None and the
\* empty string normalise to the empty string
C18_NormalizeIdempotent ==
    /\ nrm.stage = "twice" => nrm.twice = nrm.once
    /\ (nrm.stage \in {"once", "twice"} /\ nrm.name \in {None, <<>>})
           => nrm.once = <<>>

\* a name that lost a legal suffix and kept something has been normalised
\* twice
C18_Witness ==
    /\ nrm.stage = "twice"
    /\ nrm.name # None
    /\ nrm.once # <<>>
    /\ Len(nrm.once) + 3 <= Len(nrm.name)

\* the reference rows as build_indexes sees them, and the buckets of a key
IndexedRow(i) ==
    [abn |-> blk.abr_df[i].abn,
     normalized_name |-> blk.abr_df[i].normalized_name,
     strong_norm |-> strong_normalize(blk.abr_df[i].normalized_name)]
Indexed == blk.stage \in {"indexed", "retrieved", "passed"}
Queried == blk.stage \in {"retrieved", "passed"}
Returned(abn) ==
    \E k \in 1..Len(blk.candidates) : blk.candidates[k].abn = abn
PrefixBucket == DictGet(blk.index.by_prefix3, prefix3(blk.cc_norm))
TokenBucket == DictGet(blk.index.by_token1, first_tok(blk.cc_norm))

\* C13 as written: a reference record whose normalized name (the column) is
\* non-empty is among the candidates of a query record with the identical
\* normalized name
C13_CompleteForNormalizedName ==
    Queried =>
        \A i \in 1..Len(blk.abr_df) :
            (/\ blk.abr_df[i].normalized_name # <<>>
             /\ blk.abr_df[i].normalized_name = blk.normalized_name)
                => Returned(blk.abr_df[i].abn)

\* C13: a reference record whose strongly-normalized name is non-empty is
\* among the candidates of every query whose strongly-normalized name is
\* identical to it
C13_CompleteForStrongName ==
    Queried =>
        \A i \in 1..Len(blk.abr_df) :
            (/\ IndexedRow(i).strong_norm # <<>>
             /\ IndexedRow(i).strong_norm = blk.cc_norm)
                => \E k \in 1..Len(blk.candidates) :
                       /\ blk.candidates[k].abn = blk.abr_df[i].abn
                       /\ blk.candidates[k].normalized_name =
                              blk.abr_df[i].normalized_name

\* a query found a reference record whose column differs from the query's
\* but whose strongly-normalized name is the same
C13_Witness ==
    /\ blk.stage = "retrieved"
    /\ \E i \in 1..Len(blk.abr_df) :
           /\ blk.abr_df[i].normalized_name # blk.normalized_name
           /\ IndexedRow(i).strong_norm = blk.cc_norm
           /\ Returned(blk.abr_df[i].abn)

\* C15: the candidates are the prefix bucket followed by the rows of the
\* token bucket not already taken: no identifier twice, every row of either
\* bucket present, nothing from elsewhere, and candidate_norms[i] the
\* strongly-normalized name of candidates[i]
C15_CandidatesAreDedupedUnion ==
    blk.stage = "retrieved" =>
        LET C == blk.candidates
            N == blk.candidate_norms
        IN /\ \A i, j \in 1..Len(C) : i # j => C[i].abn # C[j].abn
           /\ \A k \in 1..Len(PrefixBucket) : Returned(PrefixBucket[k].abn)
           /\ \A k \in 1..Len(TokenBucket) : Returned(TokenBucket[k].abn)
           /\ Len(PrefixBucket) <= Len(C)
           /\ \A i \in 1..Len(PrefixBucket) : C[i] = PrefixBucket[i]
           /\ \A i \in (Len(PrefixBucket) + 1)..Len(C) :
                  /\ C[i] \in Range(TokenBucket)
                  /\ C[i] \notin Range(PrefixBucket)
           /\ Len(N) = Len(C)
           /\ \A i \in 1..Len(C) :
                  N[i] = strong_normalize(C[i].normalized_name)

\* a query whose token bucket holds a row of its prefix bucket and a row
\* that is only there
C15_Witness ==
    /\ blk.stage = "retrieved"
    /\ \E k \in 1..Len(TokenBucket) : TokenBucket[k] \in Range(PrefixBucket)
    /\ \E k \in 1..Len(TokenBucket) :
           TokenBucket[k] \notin Range(PrefixBucket)
    /\ Len(blk.candidates) = 2

\* C16: after build_indexes a row with a non-empty strongly-normalized
\* name is in the prefix bucket of its first three characters and in the
\* token bucket of its first token, a row with an empty one is in no
\* bucket, and no bucket holds a row twice
C16_IndexInvariant ==
    Indexed =>
        LET P == blk.index.by_prefix3
            T == blk.index.by_token1
        IN /\ \A i \in 1..Len(blk.abr_df) :
                  LET r == IndexedRow(i)
                  IN IF r.strong_norm # <<>>
                     THEN /\ r \in Range(DictGet(P, prefix3(r.strong_norm)))
                          /\ r \in Range(DictGet(T, first_tok(r.strong_norm)))
                     ELSE /\ \A k \in DOMAIN P : \A n \in 1..Len(P[k]) :
                                 P[k][n].abn # r.abn
                          /\ \A k \in DOMAIN T : \A n \in 1..Len(T[k]) :
                                 T[k][n].abn # r.abn
           /\ \A k \in DOMAIN P : \A m, n \in 1..Len(P[k]) :
                  m # n => P[k][m].abn # P[k][n].abn
           /\ \A k \in DOMAIN T : \A m, n \in 1..Len(T[k]) :
                  m # n => T[k][m].abn # T[k][n].abn

\* an index built from a row that is left out and a row that is kept
C16_Witness ==
    /\ blk.stage = "indexed"
    /\ \E i \in 1..Len(blk.abr_df) : IndexedRow(i).strong_norm = <<>>
    /\ \E k \in DOMAIN blk.index.by_token1 :
           k # prefix3(blk.index.by_token1[k][1].strong_norm)

\* replies in which no JSON object is found, or whose confidence is not a
\* number
Unparsable(reply) ==
    \/ reply.kind \in {"prose", "broken", "array"}
    \/ /\ reply.kind \in ObjectKinds
       /\ \/ reply.confidence.t = "null"
          \/ /\ reply.confidence.t = "str"
             /\ reply.confidence.s \in {<<>>, <<"h", "i", "g", "h">>}
Resolved == val.stage \in {"resolved", "drained"}

\* C12: validate never raises; a transport failure gives a verdict that is
\* not approved, with confidence 0 and the request-failure reason, an
\* unparsable reply one with confidence 0 and the parsing-failure reason,
\* and the job then completes (it raises only when its log INSERT does)
C12_ValidateNeverRaises ==
    Resolved =>
        /\ ~val.parsed.raised
        /\ val.reply.kind \in TransportFailures =>
               /\ ~val.parsed.same_entity
               /\ val.parsed.confidence = 0
               /\ val.parsed.reason = "request_failed"
        /\ Unparsable(val.reply) =>
               /\ ~val.parsed.same_entity
               /\ val.parsed.confidence = 0
               /\ val.parsed.reason = "parsing_failed"
        /\ val.job.raised = ~val.log_ok
        /\ (val.reply.kind \in TransportFailures \/ Unparsable(val.reply))
               => ~val.job.approved /\ val.records = <<>>

\* a job whose reply held a block that is not JSON has written its log
\* row and has been drained
C12_Witness ==
    /\ val.stage = "drained"
    /\ val.reply.kind = "broken"
    /\ val.parsed.reason = "parsing_failed"
    /\ val.job.logged

\* C14: whatever confidence the reply carries, the verdict's confidence is
\* within [0,1] (0..10000 ten-thousandths) and an ai_validated MatchRecord
\* has a confidence within [0,100] (0..10000 hundredths)
C14_ConfidenceClamped ==
    Resolved =>
        /\ val.parsed.confidence \in 0..10000
        /\ val.job.confidence \in 0..10000
        /\ \A k \in 1..Len(val.records) :
               /\ val.records[k].match_method = "ai_validated"
               /\ val.records[k].match_confidence \in 0..10000

\* an approval with confidence 2.0 has become a MatchRecord of
\* confidence 100
C14_Witness ==
    /\ val.stage = "drained"
    /\ val.reply.confidence = JNum(200000)
    /\ Len(val.records) = 1
    /\ val.records[1].match_confidence = 10000

\* C17: every submitted ValidationJob eventually resolves, and the run
\* eventually finishes its final drain and reports its totals
C17_JobsResolveAndRunReports ==
    /\ \A j \in 1..MaxRecords :
           [](j \in JobIds => <>(j \in JobIds /\ jobs[j].status = "done"))
    /\ <>(summary # <<>>)

\* the rows of core.company_master a step adds
NewRows == BagToSet(company_master') \ BagToSet(company_master)
SamePair(r1, r2) == r1.abn = r2.abn /\ r1.website_url = r2.website_url

\* C19: a match write for a pair that has a row changes nothing: no step
\* removes, repeats or alters a row of core.company_master, and a row is
\* added only for a pair that had none
C19_InsertIfAbsentKeepsRows ==
    [][/\ \A r \in BagToSet(company_master) :
              CopiesIn(r, company_master') = CopiesIn(r, company_master)
       /\ \A r \in NewRows :
              \A old \in BagToSet(company_master) : ~SamePair(r, old)
      ]_vars

\* the write of an approved job met the row a fuzzy accept had written for
\* its pair, and that row is still there
C19_Witness ==
    \E j \in JobIds :
        /\ Approved(j)
        /\ match_calls[j] = 1
        /\ \E r \in BagToSet(company_master) :
               /\ SamePair(r, jobs[j])
               /\ r.match_method # "ai_validated"

\* the row added belongs to an approved job of its pair that was escalated
FromApprovedJob(r) ==
    \E j \in 1..Len(jobs') :
        /\ jobs'[j].status = "done" /\ ~jobs'[j].raised /\ jobs'[j].approved
        /\ SamePair(r, jobs'[j])
        /\ jobs'[j].fuzzy_score >= Pts(SCORE_AI_MIN)
        /\ jobs'[j].fuzzy_score < Pts(SCORE_MED_CONF)
        /\ r.match_confidence = jobs'[j].confidence

C21_LogBeforeMatch ==
    /\ \A r \in BagToSet(company_master) :
           r.match_method = "ai_validated" =>
               \E e \in BagToSet(ai_match_log) :
                   /\ e.decision
                   /\ e.job \in JobIds
                   /\ SamePair(r, jobs[e.job])
    /\ \A e \in BagToSet(ai_match_log) :
           /\ e.job \in JobIds
           /\ jobs[e.job].status = "done"
           /\ ~jobs[e.job].raised
           /\ e.decision = jobs[e.job].approved

\* an approved job has been logged and drained into an ai_validated row,
\* and a job that was not approved has been logged with decision = false
C21_Witness ==
    /\ \E j \in JobIds :
           /\ Approved(j)
           /\ match_calls[j] = 1
           /\ LogCount(j) = 1
           /\ \E r \in BagToSet(company_master) :
                  SamePair(r, jobs[j]) /\ r.match_method = "ai_validated"
    /\ \E e \in BagToSet(ai_match_log) : ~e.decision

\* C22: a verdict is approved, and a MatchRecord written, only when the
\* reply's same_entity is the boolean true; false, a missing key, null or
\* a value that is not a boolean gives approved = false and no MatchRecord
C22_ApprovedOnlyForTrue ==
    Resolved =>
        /\ val.parsed.same_entity => val.reply.same_entity = JTrue
        /\ val.job.approved => val.reply.same_entity = JTrue
        /\ val.reply.same_entity # JTrue => val.records = <<>>

\* C23: total_written grows exactly by the rows a step inserts into
\* core.company_master, also when an INSERT finds the pair present, and the
\* summary reports that total and, as AI approved, the number of jobs that
\* resolved approved
C23_WrittenEqualsInserted ==
    [][/\ total_written' - total_written =
              BagCardinality(company_master') - BagCardinality(company_master)
       /\ summary' # <<>> =>
              /\ summary'[1].written = total_written'
              /\ summary'[1].ai_approved =
                     Cardinality({j \in 1..Len(jobs') :
                                     /\ jobs'[j].status = "done"
                                     /\ ~jobs'[j].raised
                                     /\ jobs'[j].approved})
      ]_vars

\* the greatest composite_score among the candidates of a row
BestComposite(row) ==
    CHOOSE c \in {row.cands[k].comp : k \in 1..Len(row.cands)} :
        \A k \in 1..Len(row.cands) : row.cands[k].comp <= c

\* C24: a row one of whose candidates has a composite score of 78 or more
\* is not rejected, the decision of a row is taken on a candidate with the
\* greatest composite score, and the survivor's composite score is never
\* below the cutoff 77
C24_PrefilterKeepsAcceptable ==
    [][\A row \in QueryRows :
          (~row.norm_empty /\ row.cands # <<>>) =>
              /\ BestComposite(row) >= Pts(SCORE_AI_MIN) =>
                     /\ ~PrefilterReject(row)
                     /\ \A failAt \in 0..MaxRecords :
                            ~RejectRecord(row, failAt)
              /\ (\E failAt \in 0..MaxRecords :
                      \/ \E write_ok \in BOOLEAN :
                             AcceptRecord(row, write_ok, failAt)
                      \/ EscalateRecord(row, failAt)
                      \/ RejectRecord(row, failAt))
                     => /\ Survivor(row).comp = BestComposite(row)
                        /\ Survivor(row).comp >= Pts(SCORE_AI_MIN - 1)
      ]_vars

====
